---- MODULE Spec2Model ----
(***************************************************************************)
(* rustbridge: the device polling and distribution pipeline.              *)
(*                                                                         *)
(*   src/src/modbus/reader.rs   start_polling, convert_value, RegisterStore *)
(*   src/src/modbus/mod.rs      ModbusClient::new, read_registers          *)
(*   src/src/modbus/client.rs   Context, ModbusError                       *)
(*   src/src/mqtt/mod.rs        MqttPublisher                              *)
(*   src/src/config.rs          DeviceConfig, RegisterConfig               *)
(*                                                                         *)
(* Option<T> is a sequence of length 0 (None) or 1 (Some).  An f64 that    *)
(* holds an integer is kept exactly as two limbs, hi * 2^16 + lo with      *)
(* 0 <= lo < 2^16, so that 32-bit quantities and their scaled values do    *)
(* not leave the range of TLC's 32-bit integers.                           *)
(***************************************************************************)
EXTENDS Integers, Sequences, FiniteSets, TLC

VARIABLES
    pc,          \* start_polling: where each device's poller task stands
    idx,         \* start_polling: position in `for register in &config.registers`
    reg_value,   \* start_polling: the RegisterValue built from the read (Option)
    client,      \* ModbusClient.context per device: <<>> (None) or <<kind>>
    store,       \* RegisterStore: device_id -> register name -> RegisterValue
    lock,        \* the RwLock of the store: <<>> or <<device holding write()>>
    now,         \* chrono::Utc::now()
    seen,        \* history: the device has answered a read with Ok, with Err
    busLog,      \* broadcast channel: every RegisterUpdate sent, in order
    busClosed,   \* broadcast channel: every Sender has been dropped
    rxNext,      \* broadcast::Receiver: number of positions consumed or skipped
    rxGot,       \* history: what each recv() of a subscriber returned
    pubPc,       \* start_publishing: "recv", "publish" or "done"
    pubUpdate,   \* start_publishing: the update being published (Option)
    published,   \* the messages handed to the MQTT client, in order
    cv,          \* convert_value: the last call, input and result (Option)
    rd,          \* ModbusClient::read_registers: the last call and its result (Option)
    serial,      \* ModbusClient::new over RTU: the last call and its result (Option)
    topics,      \* the topics formatted for two (device, register) pairs (Option)
    rxAtClose,   \* history: each subscriber's position when the bus was closed
    mqttConfig,  \* the MqttConfig that MqttPublisher::new was given (Option)
    mqtt,        \* the MqttPublisher built by MqttPublisher::new (Option)
    connected,   \* MqttPublisher.connected
    evPc,        \* spawn_event_loop: "off", "poll" or "sleep"
    slept,       \* spawn_event_loop: seconds spent in sleep(Duration::from_secs(5))
    lastEvent    \* history: what eventloop.poll() returned last (Option)

pollVars == <<pc, idx, reg_value, client, store, lock, now, seen>>
busVars  == <<busLog, busClosed, rxNext, rxGot, rxAtClose>>
pubVars  == <<pubPc, pubUpdate, published>>
mqttVars == <<mqttConfig, mqtt, connected, evPc, slept, lastEvent>>
vars     == <<pollVars, busVars, pubVars, cv, rd, serial, topics, mqttVars>>

None == << >>
Some(x) == <<x>>

(***************************************************************************)
(* Bounds of the model.                                                    *)
(***************************************************************************)
MaxClock == 1      \* the clock takes the values 0..MaxClock
MaxSent == 2       \* at most MaxSent updates are sent on the bus
BusCapacity == 1   \* capacity of the broadcast channel
MaxWords == 3      \* convert_value is applied to at most MaxWords words
MaxCount == 3      \* read_registers is applied to counts 0..MaxCount
MaxStatus == 1     \* at most MaxStatus status messages are published
MaxOversleep == 1  \* a sleep returns at most MaxOversleep seconds late

(***************************************************************************)
(* 16-bit words and exact integer-valued f64.                              *)
(***************************************************************************)
W16 == 65536
W15 == 32768

\* `Duration::from_secs(5)` of the event loop's back-off
BackoffSecs == 5

\* the f64 hi * 2^16 + x, normalised to 0 <= lo < 2^16
Norm(hi, x) == [hi |-> hi + (x \div W16), lo |-> x % W16]

\* `as f64` of a u16
U16AsF64(w) == [hi |-> 0, lo |-> w]

\* `as i16 as f64` of a u16: the same 16 bits read as two's complement
I16AsF64Unsigned(w) == [hi |-> 0, lo |-> w]
I16AsF64(w) == IF w >= W15 THEN [hi |-> -1, lo |-> w] ELSE [hi |-> 0, lo |-> w]

\* `((raw[0] as u32) << 16 | raw[1] as u32) as f64`
U32AsF64(w0, w1) == [hi |-> w0, lo |-> w1]

\* `((raw[0] as u32) << 16 | raw[1] as u32) as i32 as f64`
I32AsF64(w0, w1) == [hi |-> IF w0 >= W15 THEN w0 - W16 ELSE w0, lo |-> w1]

\* `f32::from_bits(bits) as f64`: the binary32 with these bits, kept by its bits
F32AsF64(w0, w1) == [f32 |-> <<w0, w1>>, scale |-> 1, offset |-> 0]

IsInt(v) == DOMAIN v = {"hi", "lo"}

\* `raw_value * scale + offset` in f64, exact for the integers modelled
MulAdd(v, scale, offset) ==
    IF IsInt(v)
    THEN Norm(v.hi * scale, v.lo * scale + offset)
    ELSE [f32 |-> v.f32, scale |-> scale, offset |-> offset]

\* `raw.first().copied().unwrap_or(0)`
FirstOr0(raw) == IF Len(raw) >= 1 THEN raw[1] ELSE 0

\* `opt.unwrap_or(d)`
UnwrapOr(opt, d) == IF opt = None THEN d ELSE opt[1]

Zero == [hi |-> 0, lo |-> 0]
One == [hi |-> 0, lo |-> 1]

\* the match on data_type: a U32, I32 or F32 with fewer than two words is 0.0
raw_value_of_ShortUsesFirst(raw, data_type) ==
    CASE data_type = "U16" -> U16AsF64(FirstOr0(raw))
      [] data_type = "I16" -> I16AsF64(FirstOr0(raw))
      [] data_type = "U32" -> IF Len(raw) >= 2 THEN U32AsF64(raw[1], raw[2]) ELSE U16AsF64(FirstOr0(raw))
      [] data_type = "I32" -> IF Len(raw) >= 2 THEN I32AsF64(raw[1], raw[2]) ELSE U16AsF64(FirstOr0(raw))
      [] data_type = "F32" -> IF Len(raw) >= 2 THEN F32AsF64(raw[1], raw[2]) ELSE U16AsF64(FirstOr0(raw))
      [] data_type = "Bool" -> IF FirstOr0(raw) # 0 THEN One ELSE Zero
raw_value_of(raw, data_type) ==
    CASE data_type = "U16" -> U16AsF64(FirstOr0(raw))
      [] data_type = "I16" -> I16AsF64(FirstOr0(raw))
      [] data_type = "U32" -> IF Len(raw) >= 2 THEN U32AsF64(raw[1], raw[2]) ELSE Zero
      [] data_type = "I32" -> IF Len(raw) >= 2 THEN I32AsF64(raw[1], raw[2]) ELSE Zero
      [] data_type = "F32" -> IF Len(raw) >= 2 THEN F32AsF64(raw[1], raw[2]) ELSE Zero
      [] data_type = "Bool" -> IF FirstOr0(raw) # 0 THEN One ELSE Zero

convert_value(raw, config) ==
    MulAdd(raw_value_of(raw, config.data_type),
           UnwrapOr(config.scale, 1), UnwrapOr(config.offset, 0))

(***************************************************************************)
(* convert_value on bounded inputs.                                        *)
(***************************************************************************)
DataTypes == {"U16", "I16", "U32", "I32", "F32", "Bool"}
WordSamples == {0, 1, 250, 32767, 32768, 65436, 65535}
ScaleSamples == {None, Some(1), Some(3), Some(-2)}
OffsetSamples == {None, Some(0), Some(7), Some(-40)}

RECURSIVE SeqsUpTo(_, _)
SeqsUpTo(S, n) ==
    IF n = 0 THEN {<< >>}
    ELSE LET shorter == SeqsUpTo(S, n - 1)
         IN shorter \cup {Append(s, w) : s \in {t \in shorter : Len(t) = n - 1}, w \in S}

RawInputs == SeqsUpTo(WordSamples, MaxWords)

ConvRegister(dt, sc, off) ==
    [name |-> "x", address |-> 0, register_type |-> "Holding", count |-> 1,
     data_type |-> dt, unit |-> None, scale |-> sc, offset |-> off]

Convert ==
    /\ cv = None
    /\ \E raw \in RawInputs, dt \in DataTypes, sc \in ScaleSamples, off \in OffsetSamples :
          LET config == ConvRegister(dt, sc, off)
          IN cv' = Some([raw |-> raw, config |-> config,
                         value |-> convert_value(raw, config)])
    /\ UNCHANGED <<pollVars, busVars, pubVars, rd, serial, topics, mqttVars>>

(***************************************************************************)
(* Configuration: Config.devices, each with its ordered registers.         *)
(***************************************************************************)
Devices == {"A", "B"}

Registers(d) ==
    IF d = "A"
    THEN << [name |-> "t", address |-> 100, register_type |-> "Holding", count |-> 1,
             data_type |-> "I16", unit |-> Some("C"), scale |-> Some(3), offset |-> None],
            [name |-> "p", address |-> 200, register_type |-> "Input", count |-> 2,
             data_type |-> "U32", unit |-> None, scale |-> None, offset |-> Some(7)] >>
    ELSE << [name |-> "t", address |-> 0, register_type |-> "Coil", count |-> 1,
             data_type |-> "Bool", unit |-> None, scale |-> None, offset |-> None] >>

RegNames(d) == {Registers(d)[i].name : i \in 1..Len(Registers(d))}

\* ConnectionConfig::Tcp or ConnectionConfig::Rtu
ConnectionKind(d) == IF d = "A" THEN "TCP" ELSE "RTU"

(***************************************************************************)
(* What a device may answer to one read.                                   *)
(***************************************************************************)
PollWords == {1, 65535}
Bits == {TRUE, FALSE}

RECURSIVE SeqsOfLen(_, _)
SeqsOfLen(S, n) ==
    IF n = 0 THEN {<< >>}
    ELSE {Append(s, w) : s \in SeqsOfLen(S, n - 1), w \in S}

\* a device answers `count` words, or fewer: w, w - 1, ...
WordAnswers(register) ==
    {[i \in 1..n |-> w - (i - 1)] : w \in PollWords, n \in 1..register.count}
BitAnswers(register) == SeqsOfLen(Bits, register.count)

\* `.map(|&b| if b { 1u16 } else { 0u16 })`
BitsToWordsReversed(bits) ==
    [i \in 1..Len(bits) |-> IF bits[Len(bits) + 1 - i] THEN 1 ELSE 0]
BitsToWords(bits) == [i \in 1..Len(bits) |-> IF bits[i] THEN 1 ELSE 0]

\* ModbusError as produced by the read methods of Context
ReadErrors == {"Transport", "Exception"}

\* the Ok results of ModbusClient::read_registers for one register
ReadAnswers(register) ==
    IF register.register_type \in {"Holding", "Input"}
    THEN WordAnswers(register)
    ELSE {BitsToWords(b) : b \in BitAnswers(register)}

(***************************************************************************)
(* ModbusClient::read_registers and the read methods of Context.           *)
(***************************************************************************)
Ok(v) == [ok |-> TRUE, val |-> v, err |-> None]
Err(e) == [ok |-> FALSE, val |-> << >>, err |-> Some(e)]

RegisterTypes == {"Holding", "Input", "Coil", "Discrete"}
ContextKinds == {"TCP", "RTU"}

\* the Modbus exception codes a device answers with
ExceptionCodes == {"IllegalFunction", "IllegalDataAddress", "IllegalDataValue"}

\* what comes back for a request that was sent: data, an exception response,
\* or a failure of the transport
WireData(register) ==
    IF register.register_type \in {"Holding", "Input"}
    THEN {<< >>} \cup WordAnswers(register)
    ELSE {<< >>} \cup BitAnswers(register)
WireResponses(register) ==
    {[k |-> "data", data |-> a, code |-> ""] : a \in WireData(register)}
    \cup {[k |-> "exception", data |-> << >>, code |-> c] : c \in ExceptionCodes}
    \cup {[k |-> "transport", data |-> << >>, code |-> ""]}

\* Context::read_holding_registers, read_input_registers, read_coils and
\* read_discrete_inputs, for Context::Tcp and Context::Rtu alike:
\* `let result = ctx.read_x(addr, cnt).await?; result.map_err(ModbusError::Exception)`
Context_read_ExceptionAsEmpty(kind, register_type, addr, cnt, resp) ==
    IF resp.k = "transport" THEN Err([kind |-> "Transport", code |-> ""])
    ELSE Ok(resp.data)
Context_read(kind, register_type, addr, cnt, resp) ==
    IF resp.k = "transport" THEN Err([kind |-> "Transport", code |-> ""])
    ELSE IF resp.k = "exception" THEN Err([kind |-> "Exception", code |-> resp.code])
    ELSE Ok(resp.data)

\* read_registers puts a request on the wire: always, once there is a context
RequestSent(context, register) == context # None

\* ModbusClient::read_registers
read_registers(context, register, resp) ==
    IF context = None
    THEN Err([msg |-> "No connection available", source |-> None])
    ELSE LET r == Context_read(context[1], register.register_type,
                               register.address, register.count, resp)
         IN IF ~r.ok THEN Err([msg |-> "Modbus error", source |-> r.err])
            ELSE IF register.register_type \in {"Holding", "Input"} THEN Ok(r.val)
            ELSE Ok(BitsToWords(r.val))

\* the arm of `match client.read_registers(register).await` in start_polling
\* that a result selects: "Ok" writes the store, "Err" logs
PollerArm(result) == IF result.ok THEN "Ok" ELSE "Err"

\* the registers read_registers is applied to
ReadRegisterSamples ==
    {[name |-> "x", address |-> 0, register_type |-> rt, count |-> n,
      data_type |-> "U16", unit |-> None, scale |-> None, offset |-> None] :
        rt \in RegisterTypes, n \in 0..MaxCount}

\* one call of read_registers
ReadRegisters ==
    /\ rd = None
    /\ \E context \in {None} \cup {Some(k) : k \in ContextKinds},
          register \in ReadRegisterSamples :
          \E resp \in WireResponses(register) :
             LET result == read_registers(context, register, resp)
             IN rd' = Some([context |-> context, register |-> register,
                            sent |-> RequestSent(context, register),
                            response |-> resp, result |-> result,
                            arm |-> PollerArm(result)])
    /\ UNCHANGED <<pollVars, busVars, pubVars, cv, serial, topics, mqttVars>>

(***************************************************************************)
(* ModbusClient::new over RTU: the serial parameters.                      *)
(***************************************************************************)
\* a String is the sequence of its characters
\* char::to_lowercase for the letters that occur
LowerChar(c) ==
    CASE c = "N" -> "n" [] c = "O" -> "o" [] c = "E" -> "e" [] c = "V" -> "v"
      [] c = "D" -> "d" [] c = "M" -> "m" [] c = "A" -> "a" [] c = "R" -> "r"
      [] c = "K" -> "k"
      [] OTHER -> c

\* str::to_lowercase
to_lowercase(s) == [i \in 1..Len(s) |-> LowerChar(s[i])]

\* `match rtu.parity.to_lowercase().as_str()`
ParityOfCaseSensitive(parity) ==
    CASE parity = <<"n", "o", "n", "e">> -> "None"
      [] parity = <<"e", "v", "e", "n">> -> "Even"
      [] parity = <<"o", "d", "d">> -> "Odd"
      [] OTHER -> "None"
ParityOf(parity) ==
    LET lower == to_lowercase(parity)
    IN CASE lower = <<"n", "o", "n", "e">> -> "None"
         [] lower = <<"e", "v", "e", "n">> -> "Even"
         [] lower = <<"o", "d", "d">> -> "Odd"
         [] OTHER -> "None"

\* `match rtu.stop_bits`
StopBitsOf(stop_bits) ==
    CASE stop_bits = 1 -> "One"
      [] stop_bits = 2 -> "Two"
      [] OTHER -> "One"

\* `match rtu.data_bits`
DataBitsOf(data_bits) ==
    CASE data_bits = 5 -> "Five"
      [] data_bits = 6 -> "Six"
      [] data_bits = 7 -> "Seven"
      [] data_bits = 8 -> "Eight"
      [] OTHER -> "Eight"

\* RtuConnection.parity, stop_bits, data_bits as configured
ParitySamples ==
    {<<"n", "o", "n", "e">>, <<"N", "O", "N", "E">>, <<"N", "o", "n", "e">>,
     <<"e", "v", "e", "n">>, <<"E", "V", "E", "N">>, <<"E", "v", "e", "n">>,
     <<"e", "V", "e", "N">>,
     <<"o", "d", "d">>, <<"O", "D", "D">>, <<"O", "d", "d">>,
     <<"m", "a", "r", "k">>, <<"M", "A", "R", "K">>, <<"e">>, <<"n", "o">>,
     <<"o", "d", "d", "s">>, << >>}
StopBitsSamples == {0, 1, 2, 3, 255}
DataBitsSamples == {0, 4, 5, 6, 7, 8, 9, 255}

\* ModbusClient::new(&config) for ConnectionConfig::Rtu: the parameters are
\* mapped, the port is opened (which the system may refuse), the context is
\* attached
RtuNew ==
    /\ serial = None
    /\ \E parity \in ParitySamples, stop_bits \in StopBitsSamples,
          data_bits \in DataBitsSamples, opened \in BOOLEAN :
          serial' = Some([rtu |-> [parity |-> parity, stop_bits |-> stop_bits,
                                   data_bits |-> data_bits],
                          parity |-> ParityOf(parity),
                          stop_bits |-> StopBitsOf(stop_bits),
                          data_bits |-> DataBitsOf(data_bits),
                          opened |-> opened,
                          result |-> IF opened THEN Ok(Some("RTU"))
                                     ELSE Err("Failed to open serial port")])
    /\ UNCHANGED <<pollVars, busVars, pubVars, cv, rd, topics, mqttVars>>

(***************************************************************************)
(* The store.                                                              *)
(***************************************************************************)
HasEntry(st, d, r) == d \in DOMAIN st /\ r \in DOMAIN st[d]

\* `store.entry(device_id).or_insert_with(HashMap::new)` then
\* `device_map.insert(name, reg_value)`
StoreInsertFreshMap(st, d, name, rv) ==
    [e \in (DOMAIN st) \cup {d} |-> IF e = d THEN [n \in {name} |-> rv] ELSE st[e]]
StoreInsertEveryDevice(st, d, name, rv) ==
    [e \in (DOMAIN st) \cup {d} |->
        LET device_map == IF e \in DOMAIN st THEN st[e] ELSE << >>
        IN [n \in (DOMAIN device_map) \cup (IF e = d THEN {name} ELSE {}) |->
               IF n = name THEN rv ELSE device_map[n]]]
StoreInsert(st, d, name, rv) ==
    LET device_map == IF d \in DOMAIN st THEN st[d] ELSE << >>
        inserted == [n \in (DOMAIN device_map) \cup {name} |->
                        IF n = name THEN rv ELSE device_map[n]]
    IN [e \in (DOMAIN st) \cup {d} |-> IF e = d THEN inserted ELSE st[e]]

(***************************************************************************)
(* start_polling, one task per device.                                     *)
(***************************************************************************)
CurrentRegister(d) == Registers(d)[idx[d]]

\* the end of one iteration of `for register in &config.registers`
NextRegister(d) ==
    IF idx[d] < Len(Registers(d))
    THEN /\ idx' = [idx EXCEPT ![d] = idx[d] + 1]
         /\ pc' = [pc EXCEPT ![d] = "read"]
    ELSE /\ idx' = [idx EXCEPT ![d] = 1]
         /\ pc' = [pc EXCEPT ![d] = "tick"]

\* ModbusClient::new(&config).await succeeds
NewOk(d) ==
    /\ pc[d] = "new"
    /\ client' = [client EXCEPT ![d] = Some(ConnectionKind(d))]
    /\ pc' = [pc EXCEPT ![d] = "tick"]
    /\ UNCHANGED <<idx, reg_value, store, lock, now, seen, busVars, pubVars, cv, rd, serial, topics, mqttVars>>

\* ModbusClient::new(&config).await? fails: start_polling returns the error
NewErrStopsAll(d) ==
    /\ pc[d] = "new"
    /\ pc' = [e \in Devices |-> "failed"]
    /\ UNCHANGED <<idx, reg_value, client, store, lock, now, seen, busVars, pubVars, cv, rd, serial, topics, mqttVars>>
NewErr(d) ==
    /\ pc[d] = "new"
    /\ pc' = [pc EXCEPT ![d] = "failed"]
    /\ UNCHANGED <<idx, reg_value, client, store, lock, now, seen, busVars, pubVars, cv, rd, serial, topics, mqttVars>>

\* ticker.tick().await returns
Tick(d) ==
    /\ pc[d] = "tick"
    /\ IF Len(Registers(d)) >= 1
       THEN pc' = [pc EXCEPT ![d] = "read"]
       ELSE UNCHANGED pc
    /\ UNCHANGED <<idx, reg_value, client, store, lock, now, seen, busVars, pubVars, cv, rd, serial, topics, mqttVars>>

\* ModbusClient::is_connected
is_connected(context) == context # None

\* the RegisterValue built in the Ok arm
MakeRegValueUnscaled(register, raw_values, timestamp) ==
    [name |-> register.name, raw |-> raw_values,
     value |-> raw_value_of(raw_values, register.data_type),
     unit |-> register.unit, timestamp |-> timestamp]
MakeRegValueTimeLeft(register, raw_values, timestamp) ==
    [name |-> register.name, raw |-> raw_values,
     value |-> convert_value(raw_values, register),
     unit |-> register.unit, timestamp |-> MaxClock - timestamp]
MakeRegValue(register, raw_values, timestamp) ==
    [name |-> register.name, raw |-> raw_values,
     value |-> convert_value(raw_values, register),
     unit |-> register.unit, timestamp |-> timestamp]

\* client.read_registers(register).await returns Ok(raw_values)
ReadOk(d) ==
    /\ pc[d] = "read"
    /\ client[d] # None
    /\ \E raw_values \in ReadAnswers(CurrentRegister(d)) :
          reg_value' = [reg_value EXCEPT
                           ![d] = Some(MakeRegValue(CurrentRegister(d), raw_values, now))]
    /\ pc' = [pc EXCEPT ![d] = "write"]
    /\ seen' = [seen EXCEPT ![d].ok = TRUE]
    /\ UNCHANGED <<idx, client, store, lock, now, busVars, pubVars, cv, rd, serial, topics, mqttVars>>

\* client.read_registers(register).await returns Err(e): error!(...) and go on
ReadErrEndsTick(d) ==
    /\ pc[d] = "read"
    /\ idx' = [idx EXCEPT ![d] = 1]
    /\ pc' = [pc EXCEPT ![d] = "tick"]
    /\ seen' = [seen EXCEPT ![d].err = TRUE]
    /\ UNCHANGED <<reg_value, client, store, lock, now, busVars, pubVars, cv, rd, serial, topics, mqttVars>>
ReadErrStoresZero(d) ==
    /\ pc[d] = "read"
    /\ lock = None
    /\ store' = StoreInsert(store, d, CurrentRegister(d).name,
                            MakeRegValue(CurrentRegister(d), << >>, now))
    /\ NextRegister(d)
    /\ seen' = [seen EXCEPT ![d].err = TRUE]
    /\ UNCHANGED <<reg_value, client, lock, now, busVars, pubVars, cv, rd, serial, topics, mqttVars>>
ReadErrRetries(d) ==
    /\ pc[d] = "read"
    /\ seen' = [seen EXCEPT ![d].err = TRUE]
    /\ UNCHANGED <<pc, idx, reg_value, client, store, lock, now, busVars, pubVars, cv, rd, serial, topics, mqttVars>>
ReadErrDropsContext(d) ==
    /\ pc[d] = "read"
    /\ NextRegister(d)
    /\ client' = [client EXCEPT ![d] = None]
    /\ seen' = [seen EXCEPT ![d].err = TRUE]
    /\ UNCHANGED <<reg_value, store, lock, now, busVars, pubVars, cv, rd, serial, topics, mqttVars>>
ReadErr(d) ==
    /\ pc[d] = "read"
    /\ \E e \in ReadErrors \cup (IF client[d] = None THEN {"No connection available"} ELSE {}) :
          NextRegister(d)
    /\ seen' = [seen EXCEPT ![d].err = TRUE]
    /\ UNCHANGED <<reg_value, client, store, lock, now, busVars, pubVars, cv, rd, serial, topics, mqttVars>>

\* store.write().await returns the guard
AcquireWrite(d) ==
    /\ pc[d] = "write"
    /\ lock = None
    /\ lock' = Some(d)
    /\ pc' = [pc EXCEPT ![d] = "locked"]
    /\ UNCHANGED <<idx, reg_value, client, store, now, seen, busVars, pubVars, cv, rd, serial, topics, mqttVars>>

\* the insert under the guard, the guard dropped at the end of the block, debug!
InsertReleaseWhenBusHasRoom(d) ==
    /\ pc[d] = "locked"
    /\ \A s \in {"mqtt", "ws"} : Len(busLog) - rxNext[s] < BusCapacity
    /\ store' = StoreInsert(store, d, CurrentRegister(d).name, reg_value[d][1])
    /\ lock' = None
    /\ reg_value' = [reg_value EXCEPT ![d] = None]
    /\ NextRegister(d)
    /\ UNCHANGED <<client, now, seen, busVars, pubVars, cv, rd, serial, topics, mqttVars>>
InsertKeepsLock(d) ==
    /\ pc[d] = "locked"
    /\ store' = StoreInsert(store, d, CurrentRegister(d).name, reg_value[d][1])
    /\ reg_value' = [reg_value EXCEPT ![d] = None]
    /\ NextRegister(d)
    /\ UNCHANGED <<lock, client, now, seen, busVars, pubVars, cv, rd, serial, topics, mqttVars>>
InsertRelease(d) ==
    /\ pc[d] = "locked"
    /\ store' = StoreInsert(store, d, CurrentRegister(d).name, reg_value[d][1])
    /\ lock' = None
    /\ reg_value' = [reg_value EXCEPT ![d] = None]
    /\ NextRegister(d)
    /\ UNCHANGED <<client, now, seen, busVars, pubVars, cv, rd, serial, topics, mqttVars>>

\* the wall clock moves on
ClockAdvance ==
    /\ now < MaxClock
    /\ now' = now + 1
    /\ UNCHANGED <<pc, idx, reg_value, client, store, lock, seen, busVars, pubVars, cv, rd, serial, topics, mqttVars>>

Poller(d) ==
    \/ NewOk(d)
    \/ NewErr(d)
    \/ Tick(d)
    \/ ReadOk(d)
    \/ ReadErr(d)
    \/ AcquireWrite(d)
    \/ InsertRelease(d)

(***************************************************************************)
(* The broadcast bus of RegisterUpdate (tokio::sync::broadcast).           *)
(***************************************************************************)
Subscribers == {"mqtt", "ws"}

\* RegisterUpdate: the payload of a RegisterValue plus device_id
UpdateOf(d, rv) ==
    [device_id |-> d, register_name |-> rv.name, value |-> rv.value,
     raw |-> rv.raw, unit |-> rv.unit, timestamp |-> rv.timestamp]

\* the updates a holder of the Sender puts on the bus
UpdateSamples ==
    {UpdateOf("A", MakeRegValue(Registers("A")[1], <<1>>, 0)),
     UpdateOf("B", MakeRegValue(Registers("B")[1], <<1>>, 0))}

\* Sender::send: never waits, whatever the receivers have consumed
BusSend ==
    /\ ~busClosed
    /\ Len(busLog) < MaxSent
    /\ \E u \in UpdateSamples : busLog' = Append(busLog, u)
    /\ UNCHANGED <<busClosed, rxNext, rxGot, rxAtClose, pollVars, pubVars, cv, rd, serial, topics, mqttVars>>

\* the last Sender is dropped
BusClose ==
    /\ ~busClosed
    /\ busClosed' = TRUE
    /\ rxAtClose' = rxNext
    /\ UNCHANGED <<busLog, rxNext, rxGot, pollVars, pubVars, cv, rd, serial, topics, mqttVars>>

\* the oldest position the channel still retains
Oldest == IF Len(busLog) > BusCapacity THEN Len(busLog) - BusCapacity ELSE 0

\* Receiver::recv of subscriber s can return now
RecvReady(s) == rxNext[s] < Len(busLog) \/ busClosed

\* what Receiver::recv returns to subscriber s: the update at the next
\* position, or Lagged(n) when that position is no longer retained, or Closed
RecvSilentSkip(s) ==
    IF rxNext[s] < Oldest THEN [k |-> "ok", n |-> Oldest + 1]
    ELSE IF rxNext[s] < Len(busLog) THEN [k |-> "ok", n |-> rxNext[s] + 1]
    ELSE [k |-> "closed", n |-> 0]
RecvResult(s) ==
    IF rxNext[s] < Oldest THEN [k |-> "lagged", n |-> Oldest - rxNext[s]]
    ELSE IF rxNext[s] < Len(busLog) THEN [k |-> "ok", n |-> rxNext[s] + 1]
    ELSE [k |-> "closed", n |-> 0]

\* the receiver's position after that recv
RecvAdvance(s) ==
    LET r == RecvResult(s)
    IN IF r.k = "lagged" THEN Oldest
       ELSE IF r.k = "ok" THEN r.n
       ELSE rxNext[s]

\* subscriber s has been told that the channel is closed
SawClosed(s) ==
    IF rxGot[s] = << >> THEN FALSE ELSE rxGot[s][Len(rxGot[s])].k = "closed"

\* a subscriber other than the MQTT publisher receives once
WsRecv ==
    /\ RecvReady("ws")
    /\ ~SawClosed("ws")
    /\ rxGot' = [rxGot EXCEPT !["ws"] = Append(@, RecvResult("ws"))]
    /\ rxNext' = [rxNext EXCEPT !["ws"] = RecvAdvance("ws")]
    /\ UNCHANGED <<busLog, busClosed, rxAtClose, pollVars, pubVars, cv, rd, serial, topics, mqttVars>>

(***************************************************************************)
(* MqttPublisher: construction, messages, the event loop.                  *)
(***************************************************************************)
\* a String free of '/' as a sequence of pieces; format! concatenates
Str(x) == <<x>>
Slash == <<"/">>

\* `match config.qos { 0 => AtMostOnce, 1 => AtLeastOnce, 2 => ExactlyOnce,
\*                     _ => { warn!(...); AtLeastOnce } }`
QosOfClamped(q) ==
    CASE q = 0 -> "AtMostOnce"
      [] q = 1 -> "AtLeastOnce"
      [] OTHER -> "ExactlyOnce"
QosOf(q) ==
    CASE q = 0 -> "AtMostOnce"
      [] q = 1 -> "AtLeastOnce"
      [] q = 2 -> "ExactlyOnce"
      [] OTHER -> "AtLeastOnce"

\* MqttConfig.qos is a u8
U8 == 0..255

\* the MqttConfig of Config::default(); retain, which MqttPublisher::new reads,
\* has no default there
DefaultMqttConfig == [topic_prefix |-> "rustbridge", qos |-> 1, retain |-> FALSE]

\* every qos, both retain settings
AllMqttConfigs ==
    {[topic_prefix |-> "rustbridge", qos |-> q, retain |-> r] : q \in U8, r \in BOOLEAN}

\* a few configurations for the publishing loop
MqttConfigSamples ==
    {[topic_prefix |-> "rustbridge", qos |-> 1, retain |-> FALSE],
     [topic_prefix |-> "plant", qos |-> 0, retain |-> TRUE]}

\* the Self that MqttPublisher::new returns
NewPublisher(config) ==
    [topic_prefix |-> config.topic_prefix, qos |-> QosOf(config.qos),
     retain |-> config.retain]

\* MqttPublisher::new(&config): builds the client, clears `connected`, spawns
\* the event loop, maps the qos; it returns Ok for every config
MqttNew(configs) ==
    /\ mqtt = None
    /\ \E config \in configs :
          /\ mqttConfig' = Some(config)
          /\ mqtt' = Some(NewPublisher(config))
    /\ connected' = FALSE
    /\ evPc' = "poll"
    /\ UNCHANGED <<slept, lastEvent, pollVars, busVars, pubVars, cv, rd, serial, topics>>

\* `format!("{}/{}/{}", self.topic_prefix, update.device_id, update.register_name)`
ValueTopic(prefix, device_id, register_name) ==
    prefix \o Slash \o device_id \o Slash \o register_name

\* `format!("{}/{}/status", self.topic_prefix, device_id)`
StatusTopic(prefix, device_id) ==
    prefix \o Slash \o device_id \o Slash \o Str("status")

\* device ids and register names as pieces: "/" or a piece free of '/';
\* no string is written in two ways with these pieces
NameSamples ==
    {<<"a">>, <<"b">>, <<"status">>, <<"a", "/", "b">>, <<"b", "/", "status">>,
     <<"a", "/", "a">>}

\* the value topics of two (device, register) pairs and the status topic of
\* the second device
FormatTopics ==
    /\ topics = None
    /\ \E d \in NameSamples, r \in NameSamples, e \in NameSamples, q \in NameSamples :
          topics' = Some([device_id |-> d, register_name |-> r,
                          other_device_id |-> e, other_register_name |-> q,
                          value_topic |-> ValueTopic(Str("rustbridge"), d, r),
                          other_value_topic |-> ValueTopic(Str("rustbridge"), e, q),
                          other_status_topic |-> StatusTopic(Str("rustbridge"), e)])
    /\ UNCHANGED <<pollVars, busVars, pubVars, cv, rd, serial, mqttVars>>

\* the message publish_update hands to the client for an update
ValueMessageAlwaysRetained(p, update) ==
    [topic |-> Str(p.topic_prefix) \o Slash \o Str(update.device_id)
                  \o Slash \o Str(update.register_name),
     payload |-> [json |-> Some([value |-> update.value, raw |-> update.raw,
                                 unit |-> update.unit, timestamp |-> update.timestamp]),
                  text |-> ""],
     qos |-> p.qos, retain |-> TRUE]
ValueMessage(p, update) ==
    [topic |-> ValueTopic(Str(p.topic_prefix), Str(update.device_id),
                          Str(update.register_name)),
     payload |-> [json |-> Some([value |-> update.value, raw |-> update.raw,
                                 unit |-> update.unit, timestamp |-> update.timestamp]),
                  text |-> ""],
     qos |-> p.qos, retain |-> p.retain]

\* the message publish_status hands to the client
StatusMessage(p, device_id, online) ==
    [topic |-> StatusTopic(Str(p.topic_prefix), Str(device_id)),
     payload |-> [json |-> None, text |-> IF online THEN "online" ELSE "offline"],
     qos |-> p.qos, retain |-> TRUE]

IsStatus(m) == m.payload.json = None

\* publish_status(device_id, online) returns Ok(()); nothing under src/ calls
\* it, the caller is outside.  When it returns Err nothing has changed.
PublishStatus ==
    /\ mqtt # None
    /\ Cardinality({i \in 1..Len(published) : IsStatus(published[i])}) < MaxStatus
    /\ \E d \in Devices, online \in BOOLEAN :
          published' = Append(published, StatusMessage(mqtt[1], d, online))
    /\ UNCHANGED <<pubPc, pubUpdate, pollVars, busVars, cv, rd, serial, topics, mqttVars>>

\* what eventloop.poll().await returns
Events == {"ConnAckSuccess", "ConnAckRefused", "PingResp", "Disconnect",
           "Outgoing", "Other", "Err"}

\* the `connected` flag after the match arm of event e
ConnectedAfterAnyConnAck(e, c) ==
    CASE e \in {"ConnAckSuccess", "ConnAckRefused"} -> TRUE
      [] e \in {"Disconnect", "Err"} -> FALSE
      [] OTHER -> c
ConnectedAfter(e, c) ==
    CASE e = "ConnAckSuccess" -> TRUE
      [] e \in {"Disconnect", "Err"} -> FALSE
      [] OTHER -> c

\* spawn_event_loop: eventloop.poll().await returns e and its arm runs; the
\* Err arm goes on into sleep
EvPoll ==
    /\ evPc = "poll"
    /\ \E e \in Events :
          /\ lastEvent' = Some(e)
          /\ connected' = ConnectedAfter(e, connected)
          /\ evPc' = IF e = "Err" THEN "sleep" ELSE "poll"
    /\ slept' = 0
    /\ UNCHANGED <<mqttConfig, mqtt, pollVars, busVars, pubVars, cv, rd, serial, topics>>

\* a second passes inside tokio::time::sleep(Duration::from_secs(5))
EvSleepTick ==
    /\ evPc = "sleep"
    /\ slept < BackoffSecs + MaxOversleep
    /\ slept' = slept + 1
    /\ UNCHANGED <<mqttConfig, mqtt, connected, evPc, lastEvent, pollVars, busVars, pubVars, cv, rd, serial, topics>>

\* the sleep returns, not before its duration has passed; the loop polls again
EvWakeAtOnce ==
    /\ evPc = "sleep"
    /\ evPc' = "poll"
    /\ slept' = 0
    /\ UNCHANGED <<mqttConfig, mqtt, connected, lastEvent, pollVars, busVars, pubVars, cv, rd, serial, topics>>
EvWake ==
    /\ evPc = "sleep"
    /\ slept >= BackoffSecs
    /\ evPc' = "poll"
    /\ slept' = 0
    /\ UNCHANGED <<mqttConfig, mqtt, connected, lastEvent, pollVars, busVars, pubVars, cv, rd, serial, topics>>

(***************************************************************************)
(* MqttPublisher::start_publishing.                                        *)
(***************************************************************************)
\* update_rx.recv().await returns: Ok(update), Lagged(n) or Closed
PubRecvStopsOnLag ==
    /\ mqtt # None
    /\ pubPc = "recv"
    /\ RecvReady("mqtt")
    /\ LET r == RecvResult("mqtt")
       IN /\ rxGot' = [rxGot EXCEPT !["mqtt"] = Append(@, r)]
          /\ rxNext' = [rxNext EXCEPT !["mqtt"] = RecvAdvance("mqtt")]
          /\ CASE r.k = "ok" ->
                    /\ pubUpdate' = Some(busLog[r.n])
                    /\ pubPc' = "publish"
               [] OTHER ->
                    /\ pubPc' = "done"
                    /\ UNCHANGED pubUpdate
    /\ UNCHANGED <<busLog, busClosed, rxAtClose, published, pollVars, cv, rd, serial, topics, mqttVars>>
PubRecv ==
    /\ mqtt # None
    /\ pubPc = "recv"
    /\ RecvReady("mqtt")
    /\ LET r == RecvResult("mqtt")
       IN /\ rxGot' = [rxGot EXCEPT !["mqtt"] = Append(@, r)]
          /\ rxNext' = [rxNext EXCEPT !["mqtt"] = RecvAdvance("mqtt")]
          /\ CASE r.k = "ok" ->
                    /\ pubUpdate' = Some(busLog[r.n])
                    /\ pubPc' = "publish"
               [] r.k = "lagged" ->
                    UNCHANGED <<pubUpdate, pubPc>>
               [] r.k = "closed" ->
                    /\ pubPc' = "done"
                    /\ UNCHANGED pubUpdate
    /\ UNCHANGED <<busLog, busClosed, rxAtClose, published, pollVars, cv, rd, serial, topics, mqttVars>>

\* self.publish_update(&update).await returns Ok(())
PubPublishOk ==
    /\ pubPc = "publish"
    /\ published' = Append(published, ValueMessage(mqtt[1], pubUpdate[1]))
    /\ pubUpdate' = None
    /\ pubPc' = "recv"
    /\ UNCHANGED <<busVars, pollVars, cv, rd, serial, topics, mqttVars>>

\* self.publish_update(&update).await returns Err(e): error!(...) and go on
PubPublishErrExits ==
    /\ pubPc = "publish"
    /\ pubUpdate' = None
    /\ pubPc' = "done"
    /\ UNCHANGED <<published, busVars, pollVars, cv, rd, serial, topics, mqttVars>>
PubPublishErr ==
    /\ pubPc = "publish"
    /\ pubUpdate' = None
    /\ pubPc' = "recv"
    /\ UNCHANGED <<published, busVars, pollVars, cv, rd, serial, topics, mqttVars>>

(***************************************************************************)
(* The system.                                                             *)
(***************************************************************************)
Init ==
    /\ pc = [d \in Devices |-> "new"]
    /\ idx = [d \in Devices |-> 1]
    /\ reg_value = [d \in Devices |-> None]
    /\ client = [d \in Devices |-> None]
    /\ store = << >>
    /\ lock = None
    /\ now = 0
    /\ seen = [d \in Devices |-> [ok |-> FALSE, err |-> FALSE]]
    /\ busLog = << >>
    /\ busClosed = FALSE
    /\ rxNext = [s \in Subscribers |-> 0]
    /\ rxGot = [s \in Subscribers |-> << >>]
    /\ pubPc = "recv"
    /\ pubUpdate = None
    /\ published = << >>
    /\ cv = None
    /\ rd = None
    /\ serial = None
    /\ topics = None
    /\ rxAtClose = [s \in Subscribers |-> 0]
    /\ mqttConfig = Some(DefaultMqttConfig)
    /\ mqtt = Some(NewPublisher(DefaultMqttConfig))
    /\ connected = FALSE
    /\ evPc = "poll"
    /\ slept = 0
    /\ lastEvent = None

\* the state before MqttPublisher::new has been called
InitNew ==
    /\ pc = [d \in Devices |-> "new"]
    /\ idx = [d \in Devices |-> 1]
    /\ reg_value = [d \in Devices |-> None]
    /\ client = [d \in Devices |-> None]
    /\ store = << >>
    /\ lock = None
    /\ now = 0
    /\ seen = [d \in Devices |-> [ok |-> FALSE, err |-> FALSE]]
    /\ busLog = << >>
    /\ busClosed = FALSE
    /\ rxNext = [s \in Subscribers |-> 0]
    /\ rxGot = [s \in Subscribers |-> << >>]
    /\ pubPc = "recv"
    /\ pubUpdate = None
    /\ published = << >>
    /\ cv = None
    /\ rd = None
    /\ serial = None
    /\ topics = None
    /\ rxAtClose = [s \in Subscribers |-> 0]
    /\ mqttConfig = None
    /\ mqtt = None
    /\ connected = FALSE
    /\ evPc = "off"
    /\ slept = 0
    /\ lastEvent = None

\* MqttPublisher::new alone
NextNew == MqttNew(AllMqttConfigs)

\* the publisher: its construction, its event loop, its publishing loop fed
\* by the bus, and a caller of publish_status
NextMqtt ==
    \/ MqttNew(MqttConfigSamples)
    \/ EvPoll
    \/ EvSleepTick
    \/ EvWake
    \/ BusSend
    \/ PubRecv
    \/ PubPublishOk
    \/ PubPublishErr
    \/ PublishStatus

\* the pollers, the store and the clock
NextPoll ==
    \/ \E d \in Devices : Poller(d)
    \/ ClockAdvance

\* the bus, its subscribers and the MQTT publishing loop
NextBus ==
    \/ BusSend
    \/ BusClose
    \/ WsRecv
    \/ PubRecv
    \/ PubPublishOk
    \/ PubPublishErr

Next == NextPoll \/ NextBus

\* the pollers beside a bus whose consumers have stalled: nothing is drained
\* from the bus but what the publisher receives, and publish_update never
\* returns
NextSys ==
    \/ \E d \in Devices : Poller(d)
    \/ BusSend
    \/ PubRecv

\* Every step of NextPoll leaves busVars and pubVars unchanged and every step
\* of NextBus leaves pollVars unchanged, so SpecPoll, SpecBus and SpecSys
\* explore Spec one part at a time.
Spec == Init /\ [][Next]_vars
SpecPoll == Init /\ [][NextPoll]_vars
SpecBus == Init /\ [][NextBus]_vars
SpecSys == Init /\ [][NextSys]_vars
SpecConv == Init /\ [][Convert]_vars
SpecRead == Init /\ [][ReadRegisters]_vars
SpecRtu == Init /\ [][RtuNew]_vars
SpecTopic == Init /\ [][FormatTopics]_vars
SpecNew == InitNew /\ [][NextNew]_vars
SpecMqtt == InitNew /\ [][NextMqtt]_vars

(***************************************************************************)
(* Properties.                                                             *)
(***************************************************************************)
\* this step is poller d completing its store write
WriteDone(d) == pc[d] = "locked" /\ pc'[d] # "locked"

\* this step is poller d getting Err from a read
ReadFailed(d) == pc[d] = "read" /\ pc'[d] # "write" /\ <<pc[d], idx[d]>> # <<pc'[d], idx'[d]>>

\* C1: when the store write of a successful read completes, the entry under
\* (device_id, register name) holds the words of that read as raw and the
\* value decoded from them, and an entry changes only by the store write of a
\* later successful read of the same register of the same device.
C1_StoreHoldsDecoded ==
    [][\A d \in Devices :
          /\ WriteDone(d) =>
                LET register == CurrentRegister(d)
                    words == reg_value[d][1].raw
                IN /\ HasEntry(store', d, register.name)
                   /\ store'[d][register.name].raw = words
                   /\ store'[d][register.name].value = convert_value(words, register)
                   /\ store'[d][register.name].name = register.name
          /\ \A r \in RegNames(d) :
                (HasEntry(store, d, r) /\ ~(WriteDone(d) /\ CurrentRegister(d).name = r))
                   => (HasEntry(store', d, r) /\ store'[d][r] = store[d][r])
      ]_vars

\* C1 witness: both registers of A are stored, "p" from a two-word answer
C1_Witness ==
    /\ HasEntry(store, "A", "t") /\ HasEntry(store, "A", "p")
    /\ store["A"]["p"].raw = <<65535, 65534>>
    /\ store["A"]["p"].value = [hi |-> 65536, lo |-> 5]
    /\ store["A"]["t"].raw = <<65535>>
    /\ store["A"]["t"].value = [hi |-> -1, lo |-> 65533]
    /\ pc["A"] = "tick"

\* C2: a failed read changes nothing in the store and the poller goes on to
\* the next configured register of the same tick, or to the next tick after
\* the last register.
C2_FailedReadContinues ==
    [][\A d \in Devices :
          ReadFailed(d) =>
             /\ store' = store
             /\ IF idx[d] < Len(Registers(d))
                THEN pc'[d] = "read" /\ idx'[d] = idx[d] + 1
                ELSE pc'[d] = "tick" /\ idx'[d] = 1
      ]_vars

\* C2 witness: within A's first tick the read of "t" failed and "p" was stored
C2_Witness ==
    /\ seen["A"].err
    /\ HasEntry(store, "A", "p") /\ ~HasEntry(store, "A", "t")
    /\ pc["A"] = "tick"

\* C9: the store starts empty, its keys are configured (device, register)
\* pairs, and no outer or inner key is ever removed.
C9_StoreOnlyGrows ==
    /\ store = << >>
    /\ [](\A d \in DOMAIN store : d \in Devices /\ DOMAIN store[d] \subseteq RegNames(d))
    /\ [][/\ DOMAIN store \subseteq DOMAIN store'
          /\ \A d \in DOMAIN store : DOMAIN store[d] \subseteq DOMAIN store'[d]]_vars

\* C9 witness: every configured pair is present
C9_Witness ==
    /\ DOMAIN store = Devices
    /\ \A d \in Devices : DOMAIN store[d] = RegNames(d)

\* poller d can take a step, or waits only for a store lock whose holder can
\* release it
CanRun(d) ==
    \/ ENABLED Poller(d)
    \/ pc[d] = "write" /\ lock # None /\ ENABLED InsertRelease(lock[1])

\* C7: a poller whose client construction failed has returned before any
\* tick: it has no client, has made no read, holds no lock, has written
\* nothing and takes no further step; every other poller can still run.
C7_StartupFailureIsLocal ==
    \A d \in Devices :
       pc[d] = "failed" =>
          /\ client[d] = None
          /\ ~seen[d].ok /\ ~seen[d].err
          /\ d \notin DOMAIN store
          /\ lock # Some(d)
          /\ ~ENABLED Poller(d)
          /\ \A e \in Devices \ {d} : pc[e] # "failed" => CanRun(e)

\* C7 witness: B failed at startup, A has stored a value and is writing again
C7_Witness ==
    /\ pc["B"] = "failed"
    /\ HasEntry(store, "A", "t") /\ HasEntry(store, "A", "p")
    /\ pc["A"] = "locked"

\* C8: a device none of whose reads succeeded has no entry in the store and
\* never holds the store lock; a poller whose client was built never
\* terminates and can always run; a successful read is always followed by its
\* store write.
C8_FailingDeviceIsolated ==
    \A d \in Devices :
       /\ ~seen[d].ok => (d \notin DOMAIN store /\ lock # Some(d))
       /\ client[d] # None => (pc[d] # "failed" /\ CanRun(d))
       /\ pc[d] \in {"write", "locked"} => reg_value[d] # None
       /\ (pc[d] = "write" /\ lock = None) => ENABLED AcquireWrite(d)
       /\ pc[d] = "locked" => (lock = Some(d) /\ ENABLED InsertRelease(d))

\* C8 witness: every read of B failed, every read of A succeeded and is stored
C8_Witness ==
    /\ seen["B"].err /\ ~seen["B"].ok
    /\ seen["A"].ok /\ ~seen["A"].err
    /\ "B" \notin DOMAIN store
    /\ HasEntry(store, "A", "t") /\ HasEntry(store, "A", "p")
    /\ pc["A"] = "tick" /\ pc["B"] = "tick"

\* the updates subscriber s has not consumed yet
Backlog(s) == Len(busLog) - rxNext[s]

\* C3 as claimed: once a poller has gone on to its next read or tick, every
\* value it has stored has been emitted on the bus as a RegisterUpdate with
\* the same payload and the poller's device_id.
C3_StoredValueWasEmitted ==
    \A d \in Devices :
       (pc[d] \in {"tick", "read"} /\ d \in DOMAIN store) =>
          \A r \in DOMAIN store[d] :
             \E i \in 1..Len(busLog) : busLog[i] = UpdateOf(d, store[d][r])

\* C6: a poller that has not returned can always take a step, or waits only
\* for the store lock held by a poller that can release it, whatever the
\* bus holds and wherever the publisher stands.
C6_PollingNeverWaitsOnBus ==
    \A d \in Devices :
       pc[d] # "failed" =>
          \/ ENABLED Poller(d)
          \/ /\ pc[d] = "write"
             /\ lock # None /\ lock[1] # d
             /\ pc[lock[1]] = "locked" /\ ENABLED InsertRelease(lock[1])

\* C6 witness: A writes to the store while the bus has overflowed for both
\* subscribers and the publisher is inside publish_update
C6_Witness ==
    /\ Backlog("ws") > BusCapacity
    /\ Backlog("mqtt") >= BusCapacity
    /\ pubPc = "publish"
    /\ HasEntry(store, "A", "t")
    /\ pc["A"] = "locked" /\ idx["A"] = 2

(***************************************************************************)
(* Properties of the bus.                                                  *)
(***************************************************************************)
\* follows the results of a subscriber's recv calls from position pos: an
\* update must be the one at the next position, a lag signal counts n >= 1
\* skipped positions; the position reached, or -1
RECURSIVE Walk(_, _)
Walk(events, pos) ==
    IF events = << >> \/ pos < 0 THEN pos
    ELSE LET e == Head(events)
         IN IF e.k = "ok"
            THEN IF e.n = pos + 1 THEN Walk(Tail(events), e.n) ELSE -1
            ELSE IF e.k = "lagged"
            THEN IF e.n >= 1 THEN Walk(Tail(events), pos + e.n) ELSE -1
            ELSE Walk(Tail(events), pos)

\* C5: every subscriber receives updates in emission order, and every update
\* sent before its position is either one it received or one counted by
\* exactly one lag signal; a recv returns a lag signal exactly when the
\* subscriber itself is more than the capacity behind, it then skips to the
\* oldest of the retained updates, and no recv changes what another
\* subscriber has or will receive.
C5_LagIsPerSubscriber ==
    /\ [](\A s \in Subscribers : Walk(rxGot[s], 0) = rxNext[s] /\ rxNext[s] <= Len(busLog))
    /\ [][\A s \in Subscribers :
             rxGot'[s] # rxGot[s] =>
                LET e == rxGot'[s][Len(rxGot'[s])]
                IN /\ (e.k = "lagged") <=> (Backlog(s) > BusCapacity)
                   /\ e.k = "lagged" => (e.n = Backlog(s) - BusCapacity
                                         /\ Len(busLog) - rxNext'[s] = BusCapacity)
                   /\ e.k = "ok" => busLog[e.n] = busLog[rxNext[s] + 1]
                   /\ \A t \in Subscribers \ {s} :
                         rxGot'[t] = rxGot[t] /\ rxNext'[t] = rxNext[t]
       ]_vars

\* C5 witness: the slow subscriber was told it lagged by one and went on with
\* the second update; the publisher received both updates
C5_Witness ==
    /\ rxGot["ws"] = << [k |-> "lagged", n |-> 1], [k |-> "ok", n |-> 2] >>
    /\ rxGot["mqtt"] = << [k |-> "ok", n |-> 1], [k |-> "ok", n |-> 2] >>
    /\ Len(published) = 2

(***************************************************************************)
(* Properties of convert_value.                                            *)
(***************************************************************************)
\* the words a data type requires
WordsRequired(data_type) == IF data_type \in {"U32", "I32", "F32"} THEN 2 ELSE 1

FromInt(n) == Norm(0, n)

\* the raw_value the decoding table gives for words w
TableRawValue(w, data_type) ==
    CASE data_type = "U16" -> FromInt(w[1])
      [] data_type = "I16" -> FromInt(IF w[1] >= W15 THEN w[1] - W16 ELSE w[1])
      [] data_type = "U32" -> [hi |-> w[1], lo |-> w[2]]
      [] data_type = "I32" -> [hi |-> IF w[1] >= W15 THEN w[1] - W16 ELSE w[1], lo |-> w[2]]
      [] data_type = "Bool" -> FromInt(IF w[1] # 0 THEN 1 ELSE 0)

\* C10: for U16, I16, U32, I32 and Bool with at least the required words,
\* convert_value is raw_value * scale + offset with scale defaulting to 1 and
\* offset to 0, raw_value as in the decoding table; 0xFFFF is -1 and 0xFF9C is
\* -100 as I16, 0xFFFF 0xFFFF is -1 as I32; further words change nothing.
C10_ConvertValue ==
    cv # None =>
       LET raw == cv[1].raw
           config == cv[1].config
           dt == config.data_type
           scale == IF config.scale = None THEN 1 ELSE config.scale[1]
           offset == IF config.offset = None THEN 0 ELSE config.offset[1]
           plain == scale = 1 /\ offset = 0
       IN (dt # "F32" /\ Len(raw) >= WordsRequired(dt)) =>
             /\ LET rv == TableRawValue(raw, dt)
                IN cv[1].value = Norm(rv.hi * scale, rv.lo * scale + offset)
             /\ dt \in {"U16", "Bool"} =>
                   cv[1].value = FromInt((IF dt = "U16" THEN raw[1]
                                          ELSE IF raw[1] = 0 THEN 0 ELSE 1) * scale + offset)
             /\ (dt = "I16" /\ raw[1] = 65535) => cv[1].value = FromInt(offset - scale)
             /\ (dt = "I16" /\ raw[1] = 65436 /\ plain) => cv[1].value = FromInt(-100)
             /\ (dt = "I32" /\ raw[1] = 65535 /\ raw[2] = 65535) =>
                   cv[1].value = FromInt(offset - scale)
             /\ (dt = "U32" /\ raw[1] = 65535 /\ raw[2] = 65535 /\ plain) =>
                   cv[1].value = [hi |-> 65535, lo |-> 65535]
             /\ cv[1].value = convert_value(SubSeq(raw, 1, WordsRequired(dt)), config)

\* C10 witness: I32 of 0xFFFF 0xFFFF and a further word, scale -2, offset 7
C10_Witness ==
    /\ cv # None
    /\ cv[1].config.data_type = "I32"
    /\ cv[1].raw = <<65535, 65535, 250>>
    /\ cv[1].config.scale = Some(-2) /\ cv[1].config.offset = Some(7)
    /\ cv[1].value = [hi |-> 0, lo |-> 9]

(***************************************************************************)
(* Short answers.                                                          *)
(***************************************************************************)
\* the configured register of device d named r
RegisterNamed(d, r) ==
    Registers(d)[CHOOSE i \in 1..Len(Registers(d)) : Registers(d)[i].name = r]

\* words is shorter than the data type of register needs
ShortFor(words, register) == Len(words) < WordsRequired(register.data_type)

\* C11 as claimed: an entry stored from an answer shorter than its data type
\* needs holds the value 0.0.
C11_ShortAnswerStoresZero ==
    \A d \in DOMAIN store : \A r \in DOMAIN store[d] :
       ShortFor(store[d][r].raw, RegisterNamed(d, r)) => store[d][r].value = Zero

\* C11: a U32, I32 or F32 decoded from fewer than two words never fails and
\* is 0.0 * scale + offset, that is the configured offset, or 0.0 without one;
\* the read counts as successful: its RegisterValue carries that value and the
\* time of the read, and the store write that follows puts it under (device,
\* register name), creating the entry or replacing the one that was there.
C11_ShortAnswerStoresOffset ==
    /\ \A dt \in {"U32", "I32", "F32"}, sc \in ScaleSamples, off \in OffsetSamples :
          \A raw \in {w \in RawInputs : Len(w) < 2} :
             convert_value(raw, ConvRegister(dt, sc, off)) = FromInt(UnwrapOr(off, 0))
    /\ [][\A d \in Devices :
             /\ (pc[d] = "read" /\ pc'[d] = "write"
                    /\ ShortFor(reg_value'[d][1].raw, CurrentRegister(d))) =>
                   /\ reg_value'[d][1].value = FromInt(UnwrapOr(CurrentRegister(d).offset, 0))
                   /\ reg_value'[d][1].timestamp = now
             /\ (WriteDone(d) /\ ShortFor(reg_value[d][1].raw, CurrentRegister(d))) =>
                   /\ HasEntry(store', d, CurrentRegister(d).name)
                   /\ store'[d][CurrentRegister(d).name] = reg_value[d][1]
                   /\ store'[d][CurrentRegister(d).name].value =
                         FromInt(UnwrapOr(CurrentRegister(d).offset, 0))
       ]_vars

\* C11 witness: "p" of A, a U32 with offset 7, read at time 1 as the single
\* word 1, is stored with value 7
C11_Witness ==
    /\ HasEntry(store, "A", "p")
    /\ store["A"]["p"].raw = <<1>>
    /\ store["A"]["p"].value = FromInt(7)
    /\ store["A"]["p"].timestamp = 1
    /\ seen["A"].ok

(***************************************************************************)
(* Properties of read_registers.                                           *)
(***************************************************************************)
\* the ModbusError inside the error read_registers returned, if any
SourceError(result) ==
    IF result.ok THEN None
    ELSE result.err[1].source

\* C12 as claimed: a read with count 0 puts nothing on the wire and fails with
\* the Exception kind, illegal data value, so that the poller takes the Err
\* arm and writes nothing.
C12_ZeroCountRejectedBeforeWire ==
    (rd # None /\ rd[1].context # None /\ rd[1].register.count = 0) =>
       /\ ~rd[1].sent
       /\ SourceError(rd[1].result) = Some([kind |-> "Exception", code |-> "IllegalDataValue"])
       /\ rd[1].arm = "Err"

\* C13: whatever the context (TCP or RTU) and the register type, a request
\* answered by an exception response makes read_registers return an error
\* whose cause is of the Exception kind with the code of the response, never
\* of the Transport or Io kind and never Ok; the poller then takes the Err
\* arm, which writes nothing.  A transport failure gives the Transport kind,
\* and Ok is returned only for a data response.
C13_ExceptionIsNeverSuccess ==
    (rd # None /\ rd[1].sent) =>
       LET resp == rd[1].response
           result == rd[1].result
       IN /\ resp.k = "exception" =>
                /\ ~result.ok
                /\ result.err[1].msg = "Modbus error"
                /\ SourceError(result) = Some([kind |-> "Exception", code |-> resp.code])
                /\ SourceError(result)[1].kind \notin {"Transport", "Io"}
                /\ rd[1].arm = "Err"
          /\ resp.k = "transport" =>
                (~result.ok /\ SourceError(result)[1].kind = "Transport")
          /\ result.ok <=> resp.k = "data"

\* C13 witness: over RTU, a read of two coils answered by the exception
\* illegal data address
C13_Witness ==
    /\ rd # None
    /\ rd[1].context = Some("RTU")
    /\ rd[1].register.register_type = "Coil" /\ rd[1].register.count = 2
    /\ rd[1].response.k = "exception" /\ rd[1].response.code = "IllegalDataAddress"
    /\ ~rd[1].result.ok
    /\ rd[1].arm = "Err"

(***************************************************************************)
(* Properties of shutdown and of the closed bus.                           *)
(***************************************************************************)
\* C14 as claimed, for the publisher: when the publishing loop has ended, a
\* retained "offline" status has been published for every known device.
C14_OfflinePublishedAtShutdown ==
    pubPc = "done" =>
       \A d \in Devices :
          \E i \in 1..Len(published) : published[i] = StatusMessage(mqtt[1], d, FALSE)

\* subscriber s has received the update at position i
Received(s, i) == \E j \in 1..Len(rxGot[s]) : rxGot[s][j] = [k |-> "ok", n |-> i]

\* C15 as claimed: a subscriber that is told "closed" has received every
\* update that was on the bus and that it had not consumed when the bus was
\* closed.
C15_ClosedAfterEveryUpdate ==
    \A s \in Subscribers :
       SawClosed(s) => \A i \in (rxAtClose[s] + 1)..Len(busLog) : Received(s, i)

\* the larger of two numbers
Max(a, b) == IF a >= b THEN a ELSE b

\* C15: a subscriber is told "closed" only once the bus is closed and it has
\* nothing left to receive; before that it has received, of the updates it had
\* not consumed at the close, every one the bus still retained (the last
\* BusCapacity), the older ones having been counted by a lag signal.  The
\* publishing loop has ended exactly when its receiver was told "closed", and
\* it never resumes.
C15_ClosedAfterDrain ==
    /\ [](\A s \in Subscribers :
            SawClosed(s) =>
               /\ busClosed
               /\ rxNext[s] = Len(busLog)
               /\ Walk(rxGot[s], 0) = Len(busLog)
               /\ \A i \in (Max(rxAtClose[s], Len(busLog) - BusCapacity) + 1)..Len(busLog) :
                     Received(s, i))
    /\ [](pubPc = "done" <=> SawClosed("mqtt"))
    /\ [][/\ pubPc = "done" => pubPc' = "done"
          /\ busClosed => (busClosed' /\ busLog' = busLog)
          /\ (pubPc # "done" /\ pubPc' = "done") => (pubPc = "recv" /\ rxNext["mqtt"] = Len(busLog))
       ]_vars

\* C15 witness: two updates were sent and the bus closed when the slow
\* subscriber had consumed nothing and the publisher one update; the slow
\* subscriber got a lag signal, the second update and "closed", the publisher
\* published both updates and ended
C15_Witness ==
    /\ rxAtClose = [s \in Subscribers |-> IF s = "mqtt" THEN 1 ELSE 0]
    /\ rxGot["ws"] = << [k |-> "lagged", n |-> 1], [k |-> "ok", n |-> 2],
                        [k |-> "closed", n |-> 0] >>
    /\ rxGot["mqtt"] = << [k |-> "ok", n |-> 1], [k |-> "ok", n |-> 2],
                          [k |-> "closed", n |-> 0] >>
    /\ Len(published) = 2
    /\ pubPc = "done"

(***************************************************************************)
(* Properties of the MQTT publisher.                                       *)
(***************************************************************************)
\* C16: MqttPublisher::new accepts every qos a u8 can hold and returns a
\* publisher; its QoS is AtMostOnce for 0, AtLeastOnce for 1, ExactlyOnce for
\* 2 and AtLeastOnce for 3..255.
C16_QosMapping ==
    /\ (mqtt # None) <=> (mqttConfig # None)
    /\ mqtt = None => \A config \in AllMqttConfigs : ENABLED MqttNew({config})
    /\ mqtt # None =>
          LET q == mqttConfig[1].qos
          IN /\ q \in 0..255
             /\ q = 0 => mqtt[1].qos = "AtMostOnce"
             /\ q = 1 => mqtt[1].qos = "AtLeastOnce"
             /\ q = 2 => mqtt[1].qos = "ExactlyOnce"
             /\ q \in 3..255 => mqtt[1].qos = "AtLeastOnce"

\* C16 witness: built from qos 255
C16_Witness ==
    /\ mqtt # None
    /\ mqttConfig[1].qos = 255
    /\ mqtt[1].qos = "AtLeastOnce"

\* the updates that have been on the bus
Emitted == {busLog[i] : i \in 1..Len(busLog)}

\* C17: every value message is on prefix/device_id/register_name of an
\* emitted update, carries that update's value, raw, unit and timestamp and
\* the configured retain flag; every status message is on
\* prefix/device_id/status with retain set whatever the configuration and with
\* the text "online" or "offline" as payload; both use the configured QoS.
C17_TopicsAndRetain ==
    \A i \in 1..Len(published) :
       LET m == published[i]
           prefix == mqttConfig[1].topic_prefix
       IN /\ m.qos = mqtt[1].qos
          /\ IF m.payload.json = None
             THEN /\ \E d \in Devices : m.topic = <<prefix, "/", d, "/", "status">>
                  /\ m.retain = TRUE
                  /\ m.payload.text \in {"online", "offline"}
             ELSE /\ \E u \in Emitted :
                        /\ m.topic = <<prefix, "/", u.device_id, "/", u.register_name>>
                        /\ m.payload.json = Some([value |-> u.value, raw |-> u.raw,
                                                   unit |-> u.unit, timestamp |-> u.timestamp])
                  /\ m.retain = mqttConfig[1].retain
                  /\ m.payload.text = ""

\* C17 witness: with retain off in the configuration, the value of A/t was
\* published unretained and then B's "offline" status retained
C17_Witness ==
    /\ mqttConfig = Some([topic_prefix |-> "rustbridge", qos |-> 1, retain |-> FALSE])
    /\ Len(published) = 2
    /\ published[1].topic = <<"rustbridge", "/", "A", "/", "t">>
    /\ published[1].retain = FALSE
    /\ published[2].topic = <<"rustbridge", "/", "B", "/", "status">>
    /\ published[2].payload.text = "offline"
    /\ published[2].retain = TRUE

\* the value messages among the published ones, in order
RECURSIVE ValueMessages(_)
ValueMessages(ms) ==
    IF ms = << >> THEN << >>
    ELSE IF IsStatus(Head(ms)) THEN ValueMessages(Tail(ms))
    ELSE <<Head(ms)>> \o ValueMessages(Tail(ms))

\* the messages of the updates a receiver was given, in order
RECURSIVE MessagesReceived(_)
MessagesReceived(events) ==
    IF events = << >> THEN << >>
    ELSE IF Head(events).k = "ok"
    THEN <<ValueMessage(mqtt[1], busLog[Head(events).n])>> \o MessagesReceived(Tail(events))
    ELSE MessagesReceived(Tail(events))

\* a is b with some elements left out
RECURSIVE IsSubSeq(_, _)
IsSubSeq(a, b) ==
    IF a = << >> THEN TRUE
    ELSE IF b = << >> THEN FALSE
    ELSE IF Head(a) = Head(b) THEN IsSubSeq(Tail(a), Tail(b))
    ELSE IsSubSeq(a, Tail(b))

\* C18: the publishing loop never ends while the bus is open: after a failed
\* publish_update and after a lag signal it is back in recv with nothing
\* published by that step; every update it receives is handed to
\* publish_update, which can run whatever the connected flag says; what has
\* been published is, in order, part of what was received, so nothing dropped
\* is recovered and nothing is published twice.
C18_LoopSurvives ==
    /\ [](/\ pubPc # "done"
          /\ pubPc = "publish" =>
                (pubUpdate # None /\ ENABLED PubPublishOk /\ ENABLED PubPublishErr)
          /\ IsSubSeq(ValueMessages(published), MessagesReceived(rxGot["mqtt"]))
          /\ Len(ValueMessages(published)) + (IF pubPc = "publish" THEN 1 ELSE 0)
                <= Len(MessagesReceived(rxGot["mqtt"])))
    /\ [][/\ rxGot'["mqtt"] # rxGot["mqtt"] =>
                LET e == rxGot'["mqtt"][Len(rxGot'["mqtt"])]
                IN /\ e.k = "lagged" =>
                         (pubPc' = "recv" /\ pubUpdate' = None /\ published' = published)
                   /\ e.k = "ok" =>
                         (pubPc' = "publish" /\ pubUpdate' = Some(busLog[e.n]))
          /\ (pubPc = "publish" /\ pubPc' # "publish") =>
                /\ pubPc' = "recv"
                /\ pubUpdate' = None
                /\ \/ published' = published
                   \/ published' = Append(published, ValueMessage(mqtt[1], pubUpdate[1]))
       ]_vars

\* C18 witness: disconnected after an event-loop error, the loop was told it
\* lagged by one, received the second update, failed to publish it and is
\* back in recv
C18_Witness ==
    /\ rxGot["mqtt"] = << [k |-> "lagged", n |-> 1], [k |-> "ok", n |-> 2] >>
    /\ published = << >>
    /\ pubPc = "recv" /\ pubUpdate = None
    /\ ~connected /\ lastEvent = Some("Err")

\* this step is the event loop handling what poll() returned
EvStep == evPc = "poll" /\ <<lastEvent, connected, evPc>>' # <<lastEvent, connected, evPc>>

\* C19: the connected flag is false when the publisher is built; handling a
\* CONNACK with code Success sets it, handling a Disconnect packet or an
\* error of the event loop clears it, handling anything else (a refused
\* CONNACK, a ping response, an outgoing event, any other packet) leaves it,
\* and nothing else changes it; after an error the loop sleeps and polls
\* again only when at least BackoffSecs seconds have passed; once spawned the
\* loop can always take a step and never ends.
C19_ConnectedFlag ==
    /\ [](mqtt = None => (~connected /\ evPc = "off"))
    /\ [](evPc \in {"poll", "sleep"} => ENABLED (EvPoll \/ EvSleepTick \/ EvWake))
    /\ [](evPc = "sleep" => (~connected /\ lastEvent = Some("Err")))
    /\ [][/\ (mqtt = None /\ mqtt' # None) => (~connected' /\ evPc' = "poll")
          /\ evPc # "off" => evPc' \in {"poll", "sleep"}
          /\ connected' # connected => EvStep
          /\ EvStep =>
                LET e == lastEvent'[1]
                IN /\ e = "ConnAckSuccess" => connected'
                   /\ e \in {"Disconnect", "Err"} => ~connected'
                   /\ e \in {"ConnAckRefused", "PingResp", "Outgoing", "Other"} =>
                         connected' = connected
                   /\ e = "Err" <=> evPc' = "sleep"
                   /\ slept' = 0
          /\ (evPc = "sleep" /\ evPc' = "poll") => slept >= BackoffSecs
          /\ evPc = "sleep" => (lastEvent' = lastEvent /\ connected' = connected)
       ]_vars

\* C19 witness: the loop hit an error and has been asleep for the whole
\* back-off, the flag cleared
C19_Witness ==
    /\ evPc = "sleep"
    /\ slept = BackoffSecs
    /\ lastEvent = Some("Err")
    /\ ~connected

(***************************************************************************)
(* Properties of a tick.                                                   *)
(***************************************************************************)
\* this step is taken by poller d
StepOf(d) ==
    <<pc[d], idx[d], reg_value[d], seen[d]>> # <<pc'[d], idx'[d], reg_value'[d], seen'[d]>>

\* the entry of (d, r), if any
Entry(st, d, r) == IF HasEntry(st, d, r) THEN Some(st[d][r]) ELSE None

\* C20: a tick starts with the read of the first configured register; a read
\* ends once, either in the store write of that register or, failed, with no
\* write, and in both cases the poller goes on to the next register in
\* configured order, or to the next tick after the last one, never back to a
\* register of the same tick; an entry of the store changes only by the write
\* that follows the read of its register, so writes happen in the order of
\* the reads and each entry changes at most once between two ticks.
C20_OneReadPerRegisterPerTick ==
    /\ [](\A d \in Devices :
            /\ idx[d] \in 1..Len(Registers(d))
            /\ pc[d] \in {"new", "failed", "tick"} => idx[d] = 1
            /\ \A i, j \in 1..Len(Registers(d)) :
                  Registers(d)[i].name = Registers(d)[j].name => i = j)
    /\ [][\A d \in Devices :
             /\ (pc[d] = "tick" /\ StepOf(d)) => (pc'[d] = "read" /\ idx'[d] = 1)
             /\ (pc[d] = "read" /\ StepOf(d)) =>
                   \/ pc'[d] = "write" /\ idx'[d] = idx[d] /\ reg_value'[d] # None
                   \/ pc'[d] = "read" /\ idx'[d] = idx[d] + 1
                   \/ pc'[d] = "tick" /\ idx[d] = Len(Registers(d))
             /\ (pc[d] = "write" /\ StepOf(d)) =>
                   (pc'[d] = "locked" /\ idx'[d] = idx[d] /\ reg_value'[d] = reg_value[d])
             /\ (pc[d] = "locked" /\ StepOf(d)) =>
                   \/ pc'[d] = "read" /\ idx'[d] = idx[d] + 1
                   \/ pc'[d] = "tick" /\ idx[d] = Len(Registers(d))
             /\ \A r \in RegNames(d) :
                   Entry(store', d, r) # Entry(store, d, r) =>
                      /\ WriteDone(d)
                      /\ CurrentRegister(d).name = r
                      /\ store'[d][r] = reg_value[d][1]
       ]_vars

\* C20 witness: in its second tick A has written "t" again, at time 1, and
\* is reading "p", whose entry is still the one of the first tick
C20_Witness ==
    /\ HasEntry(store, "A", "t") /\ HasEntry(store, "A", "p")
    /\ store["A"]["t"].timestamp = 1
    /\ store["A"]["p"].timestamp = 0
    /\ pc["A"] = "read" /\ idx["A"] = 2

(***************************************************************************)
(* Properties of the store's writers.                                      *)
(***************************************************************************)
\* C21: the store write of poller d puts its RegisterValue under (d, name of
\* the register just read) and leaves every other entry as it was: no device
\* key but d is added, no entry of another device and no other register of d
\* changes; a step of d that is not its store write leaves the whole store
\* unchanged.
C21_WritesOnlyOwnEntry ==
    [][\A d \in Devices :
          /\ WriteDone(d) =>
                /\ DOMAIN store' \subseteq (DOMAIN store) \cup {d}
                /\ Entry(store', d, CurrentRegister(d).name) = Some(reg_value[d][1])
                /\ \A e \in Devices : \A r \in RegNames(e) :
                      (e # d \/ r # CurrentRegister(d).name) =>
                         Entry(store', e, r) = Entry(store, e, r)
          /\ (StepOf(d) /\ ~WriteDone(d)) => store' = store
      ]_vars

\* C21 witness: A and B both have a register named "t"; A stored 1 at time 0,
\* B stored 0 at time 1, and A's entries are as A wrote them
C21_Witness ==
    /\ HasEntry(store, "A", "t") /\ HasEntry(store, "A", "p") /\ HasEntry(store, "B", "t")
    /\ store["A"]["t"].raw = <<1>> /\ store["A"]["t"].timestamp = 0
    /\ store["A"]["p"].timestamp = 0
    /\ store["B"]["t"].raw = <<0>> /\ store["B"]["t"].timestamp = 1

\* C22: the store lock is held by a poller exactly while it stands between
\* acquiring the guard and the insert; a poller that is constructing its
\* client, waiting for a tick, reading, or waiting for the lock holds nothing;
\* the holder's next step is the insert, which releases the lock and is
\* always possible; so a poller waiting for the lock waits only for an insert
\* of another poller, whatever the devices and the bus do.
C22_LockOnlyForInsert ==
    /\ [](\A d \in Devices :
            /\ (lock = Some(d)) <=> (pc[d] = "locked")
            /\ pc[d] \in {"new", "failed", "tick", "read", "write"} => lock # Some(d)
            /\ pc[d] = "locked" => ENABLED InsertRelease(d)
            /\ pc[d] = "write" =>
                  \/ lock = None /\ ENABLED AcquireWrite(d)
                  \/ lock # None /\ lock[1] # d /\ ENABLED InsertRelease(lock[1]))
    /\ [][\A d \in Devices :
             (lock = Some(d) /\ StepOf(d)) => (lock' = None /\ WriteDone(d))
       ]_vars

\* C22 witness: A's read of "p" is in flight and the bus has overflowed for
\* the slow subscriber while B holds the lock for its insert
C22_Witness ==
    /\ pc["A"] = "read" /\ idx["A"] = 2
    /\ lock = Some("B") /\ pc["B"] = "locked"
    /\ Backlog("ws") > BusCapacity

\* C25: as long as the clock does not go back, an entry of the store is only
\* ever replaced by one whose timestamp is not earlier, and no timestamp is
\* later than the clock.
C25_TimestampsNeverDecrease ==
    /\ [](\A d \in DOMAIN store : \A r \in DOMAIN store[d] : store[d][r].timestamp <= now)
    /\ [][now' >= now =>
             \A d \in DOMAIN store : \A r \in DOMAIN store[d] :
                /\ HasEntry(store', d, r)
                /\ store'[d][r].timestamp >= store[d][r].timestamp
       ]_vars

\* C25 witness: in A's second tick "t" was stored again at time 1 and the
\* read of "p" failed, its entry still being the one of time 0
C25_Witness ==
    /\ HasEntry(store, "A", "t") /\ HasEntry(store, "A", "p")
    /\ store["A"]["t"].timestamp = 1
    /\ store["A"]["p"].timestamp = 0
    /\ seen["A"].err
    /\ pc["A"] = "tick"
    /\ now = 1

BoolRegister == ConvRegister("Bool", None, None)

\* C23: a Coil or Discrete read answered with bits returns Ok with one word
\* per bit, in the order of the bits, 1 for true and 0 for false; the
\* RegisterValue built from it has these words as raw, and decoded as Bool
\* its value is 1.0 when there is a first bit and it is true, 0.0 otherwise:
\* [true, false, true] gives raw [1, 0, 1] and 1.0, no bits give 0.0.
C23_BitsBecomeWords ==
    (rd # None /\ rd[1].sent /\ rd[1].response.k = "data"
       /\ rd[1].register.register_type \in {"Coil", "Discrete"}) =>
       LET bits == rd[1].response.data
           words == rd[1].result.val
           first == IF bits = << >> THEN FALSE ELSE bits[1]
           rv == MakeRegValue(BoolRegister, words, 0)
       IN /\ rd[1].result.ok
          /\ Len(words) = Len(bits)
          /\ \A i \in 1..Len(bits) : words[i] = (IF bits[i] THEN 1 ELSE 0)
          /\ rv.raw = words
          /\ rv.value = (IF first THEN One ELSE Zero)
          /\ bits = <<TRUE, FALSE, TRUE>> => (rv.raw = <<1, 0, 1>> /\ rv.value = One)
          /\ bits = <<FALSE, TRUE>> => (rv.raw = <<0, 1>> /\ rv.value = Zero)
          /\ bits = << >> => (rv.raw = << >> /\ rv.value = Zero)

\* C23 witness: three coils read over TCP, answered true, false, true
C23_Witness ==
    /\ rd # None
    /\ rd[1].context = Some("TCP")
    /\ rd[1].register.register_type = "Coil" /\ rd[1].register.count = 3
    /\ rd[1].response.k = "data" /\ rd[1].response.data = <<TRUE, FALSE, TRUE>>
    /\ rd[1].result = Ok(<<1, 0, 1>>)

(***************************************************************************)
(* Properties of the RTU parameters and of the topics.                     *)
(***************************************************************************)
\* the lower-case spelling of a parity, written out
Spelled(parity, word) ==
    /\ Len(parity) = Len(word)
    /\ \A i \in 1..Len(word) : parity[i] \in word[i]

\* C24: whatever parity, stop bits and data bits are configured, the RTU
\* construction fails only when the port cannot be opened; a parity spelled
\* none, even or odd in any mix of cases is None, Even, Odd and any other is
\* None; stop bits 1 and 2 are One and Two and any other One; data bits 5, 6,
\* 7, 8 are Five, Six, Seven, Eight and any other Eight.
C24_SerialDefaults ==
    /\ serial = None => ENABLED RtuNew
    /\ serial # None =>
          LET c == serial[1].rtu
              none == Spelled(c.parity, <<{"n", "N"}, {"o", "O"}, {"n", "N"}, {"e", "E"}>>)
              even == Spelled(c.parity, <<{"e", "E"}, {"v", "V"}, {"e", "E"}, {"n", "N"}>>)
              odd == Spelled(c.parity, <<{"o", "O"}, {"d", "D"}, {"d", "D"}>>)
          IN /\ serial[1].result.ok <=> serial[1].opened
             /\ serial[1].parity = (IF even THEN "Even" ELSE IF odd THEN "Odd" ELSE "None")
             /\ none => serial[1].parity = "None"
             /\ serial[1].stop_bits = (IF c.stop_bits = 2 THEN "Two" ELSE "One")
             /\ serial[1].data_bits = (IF c.data_bits = 5 THEN "Five"
                                       ELSE IF c.data_bits = 6 THEN "Six"
                                       ELSE IF c.data_bits = 7 THEN "Seven"
                                       ELSE "Eight")

\* C24 witness: parity "eVeN", 3 stop bits and 9 data bits: the port opens
\* with Even, One and Eight
C24_Witness ==
    /\ serial # None
    /\ serial[1].rtu = [parity |-> <<"e", "V", "e", "N">>, stop_bits |-> 3, data_bits |-> 9]
    /\ serial[1].parity = "Even"
    /\ serial[1].stop_bits = "One"
    /\ serial[1].data_bits = "Eight"
    /\ serial[1].result = Ok(Some("RTU"))

\* C26 as claimed: the value topic of a (device, register) pair is never the
\* status topic of a device, and two different pairs never have the same
\* value topic.
C26_TopicsNeverCollide ==
    topics # None =>
       /\ topics[1].value_topic # topics[1].other_status_topic
       /\ <<topics[1].device_id, topics[1].register_name>>
             # <<topics[1].other_device_id, topics[1].other_register_name>>
             => topics[1].value_topic # topics[1].other_value_topic

====
